---- MODULE Spec2Model ----
(***************************************************************************)
(* A model of the Data Lake Frontend (streamlit_app.py, utils.py).         *)
(*                                                                         *)
(* The script is run top to bottom once per user interaction.  Every       *)
(* action below is one interaction together with the complete script run   *)
(* it triggers: the status probe of the sidebar, the page's handler and    *)
(* the rendering of the page.                                              *)
(*                                                                         *)
(* Python values.  None is the empty tuple.  A str is a tuple of text      *)
(* fragments (an f-string is the tuple of its parts), so the empty string  *)
(* is <<"">>.  Cells of a result row are plain strings.                    *)
(***************************************************************************)
EXTENDS Integers, Sequences, FiniteSets, TLC

VARIABLES
    page,               \* the sidebar radio: "Search/Download" or "Upload"
    api_base_url,       \* the sidebar text input
    sidebar,            \* what the API status section shows
    search_results,     \* st.session_state.search_results: None (key absent) or <<rows>>
    filename_options,   \* options of the first selectbox as rendered: None or <<options>>
    selected_filename,  \* its value: None or <<file_name>>
    file_id_options,    \* options of the second selectbox as rendered: None or <<options>>
    selected_file_id,   \* its value: None or <<file_id>>
    download_link,      \* the link button's url: None or the url's fragments
    data_file,          \* the single file uploader: None or <<file>>
    zip_file,           \* the zip uploader: None or <<file>>
    requests,           \* the HTTP requests sent by the last script run, in order
    shown,              \* the messages the last script run wrote to the page, in order
    search_filter,      \* the values of the seven filter widgets of the search page
    action,             \* the interaction that triggered the last script run, with its inputs
    last_search,        \* the outcome of the most recent search press: None or <<outcome>>
    df_in,              \* format_search_results alone: the table handed to it, None or <<df>>
    df_out              \* format_search_results alone: the table it returned, None or <<df>>

vars == <<page, api_base_url, sidebar, search_results, filename_options,
          selected_filename, file_id_options, selected_file_id, download_link,
          data_file, zip_file, requests, shown, search_filter, action, last_search,
          df_in, df_out>>

app_vars == <<page, api_base_url, sidebar, search_results, filename_options,
              selected_filename, file_id_options, selected_file_id, download_link,
              data_file, zip_file, requests, shown, search_filter, action, last_search>>

-----------------------------------------------------------------------------
(* Bounds of the model. *)

MaxRows == 2        \* rows of a ResultSet
MaxCols == 3        \* columns of a table handed to format_search_results alone
MaxTableRows == 2   \* rows of such a table

-----------------------------------------------------------------------------
(* Python values. *)

None == <<>>

Str(s) == <<s>>

\* Python's truth value of a str or None.
Truthy(v) == v # None /\ v # <<"">>

Range(s) == {s[i] : i \in DOMAIN s}

RECURSIVE SeqFilter(_, _)
\* [x for x in s if x in keep]
SeqFilter(s, keep) ==
    IF s = <<>> THEN <<>>
    ELSE IF s[1] \in keep THEN <<s[1]>> \o SeqFilter(Tail(s), keep)
    ELSE SeqFilter(Tail(s), keep)

TwoDigits ==
    <<"01", "02", "03", "04", "05", "06", "07", "08", "09", "10", "11", "12",
      "13", "14", "15", "16", "17", "18", "19", "20", "21", "22", "23", "24",
      "25", "26", "27", "28", "29", "30", "31">>

YearDigits(y) == IF y = 2024 THEN "2024" ELSE IF y = 2025 THEN "2025" ELSE "2026"

\* datetime.date.isoformat(): YYYY-MM-DD.
isoformat(d) == <<YearDigits(d.year), "-", TwoDigits[d.month], "-", TwoDigits[d.day]>>

Dates == {[year |-> 2024, month |-> 1, day |-> 5], [year |-> 2025, month |-> 12, day |-> 31]}

IsoDateStrings ==
    {<<y, "-", m, "-", d>> : y \in {"2024", "2025", "2026"}, m \in Range(SubSeq(TwoDigits, 1, 12)),
                              d \in Range(TwoDigits)}

-----------------------------------------------------------------------------
(* utils.py: format_search_results.  A DataFrame is its column labels in   *)
(* order and its rows in order, each row a function from the labels.       *)

desired_order ==
    <<"file_name", "research_project_id", "author", "file_type", "experiment_type",
      "date_conducted", "size_bytes", "custom_tags", "upload_timestamp", "file_id",
      "minio_object_path">>

EmptyDataFrame == [columns |-> <<>>, rows |-> <<>>]

\* DataFrame.empty: any axis of length 0.
df_empty(df) == Len(df.columns) = 0 \/ Len(df.rows) = 0

\* [col for col in desired_order if col in df.columns]
existing_columns(df) == SeqFilter(desired_order, Range(df.columns))

\* pd.to_datetime(...).dt.strftime("%Y-%m-%d"): a missing value stays missing.
format_date(v) == IF v = None THEN None ELSE <<[year |-> v[1].year, month |-> v[1].month, day |-> v[1].day]>>

\* pd.to_datetime(...).dt.strftime("%Y-%m-%d %H:%M:%S")
format_timestamp(v) ==
    IF v = None THEN None
    ELSE <<[year |-> v[1].year, month |-> v[1].month, day |-> v[1].day,
            hour |-> v[1].hour, minute |-> v[1].minute, second |-> v[1].second]>>

\* fillna(0).astype(int)
format_size(v) == IF v = None THEN 0 ELSE v[1]

format_cell(col, v) ==
    IF col = "date_conducted" THEN format_date(v)
    ELSE IF col = "upload_timestamp" THEN format_timestamp(v)
    ELSE IF col = "size_bytes" THEN format_size(v)
    ELSE v

\* df.rename(columns={"size_bytes": "size_in_bytes"})
rename_column(col) == IF col = "size_bytes" THEN "size_in_bytes" ELSE col

RECURSIVE format_row(_, _)
\* One row of the result: the cells of the kept columns, formatted, under the new labels.
format_row(cols, row) ==
    IF cols = <<>> THEN <<>>
    ELSE (rename_column(cols[1]) :> format_cell(cols[1], row[cols[1]]))
            @@ format_row(Tail(cols), row)

RECURSIVE format_rows(_, _)
format_rows(cols, rows) ==
    IF rows = <<>> THEN <<>>
    ELSE <<format_row(cols, rows[1])>> \o format_rows(cols, Tail(rows))

RECURSIVE rename_columns(_)
rename_columns(cols) ==
    IF cols = <<>> THEN <<>>
    ELSE <<rename_column(cols[1])>> \o rename_columns(Tail(cols))

format_search_results(df) ==
    IF df_empty(df) THEN EmptyDataFrame
    ELSE [columns |-> rename_columns(existing_columns(df)),
          rows |-> format_rows(existing_columns(df), df.rows)]

-----------------------------------------------------------------------------
(* The remote API as the script sees it: a response (status code, raw body *)
(* text, and the decoded body when the text is JSON) or a transport        *)
(* exception of requests.                                                  *)

Response(status, text, json) == [exc |-> FALSE, status |-> status, text |-> text, json |-> json]

RequestException == [exc |-> TRUE, status |-> 0, text |-> "Connection refused", json |-> None]

\* response.json() raises requests.exceptions.JSONDecodeError, a RequestException.
json_raises(response) == response.json = None

Request(method, url, params, files, timeout) ==
    [method |-> method, url |-> url, params |-> params, files |-> files, timeout |-> timeout]

\* One element written to the page by st.success, st.info, st.error, st.json, st.text.
Message(kind, text, code, json, raw) ==
    [kind |-> kind, text |-> text, code |-> code, json |-> json, raw |-> raw]

-----------------------------------------------------------------------------
(* The sidebar: the status probe of every script run.                      *)

status_request(base) == Request("GET", <<base, "/status">>, <<>>, <<>>, 5)

status_message(probe) ==
    IF probe.exc THEN [kind |-> "error", text |-> "Connection Error", code |-> 0]
    ELSE IF probe.status = 200 THEN [kind |-> "success", text |-> "Connected", code |-> 0]
    ELSE [kind |-> "error", text |-> "Status: ", code |-> probe.status]

-----------------------------------------------------------------------------
(* show_search_page: the search button.                                    *)

BlankFilter ==
    [research_project_id |-> "", author |-> "", file_type |-> "", experiment_type |-> "",
     tags_contain |-> "", date_after |-> None, date_before |-> None]

\* The params dict before empty filters are removed, in insertion order.
all_params(f) ==
    << <<"research_project_id", Str(f.research_project_id)>>,
       <<"author", Str(f.author)>>,
       <<"file_type", Str(f.file_type)>>,
       <<"experiment_type", Str(f.experiment_type)>>,
       <<"tags_contain", Str(f.tags_contain)>>,
       <<"date_after", IF f.date_after # None THEN isoformat(f.date_after[1]) ELSE None>>,
       <<"date_before", IF f.date_before # None THEN isoformat(f.date_before[1]) ELSE None>> >>

\* keep_param testing "v is not None" in place of the truth value of v.
keep_param_not_none(kv) == kv[2] # None

\* The test of the comprehension {k: v for k, v in params.items() if v}.
keep_param(kv) == Truthy(kv[2])

search_params(f) == SelectSeq(all_params(f), keep_param)

\* search_requests with the request sent once more after a transport exception.
search_requests_retry(base, f, outcome) ==
    IF outcome.exc
    THEN <<Request("GET", <<base, "/search">>, search_params(f), <<>>, 60),
           Request("GET", <<base, "/search">>, search_params(f), <<>>, 60)>>
    ELSE <<Request("GET", <<base, "/search">>, search_params(f), <<>>, 60)>>

\* The requests the search button sends.
search_requests(base, f, outcome) ==
    <<Request("GET", <<base, "/search">>, search_params(f), <<>>, 60)>>

\* search_results_after without the assignment of the except branch: a transport
\* exception leaves the stored results as they were.
search_results_after_kept_on_exception(outcome) ==
    IF outcome.exc THEN (IF search_results = None THEN <<>> ELSE search_results[1])
    ELSE IF outcome.status = 200 /\ ~json_raises(outcome) /\ outcome.json[1] # <<>>
         THEN outcome.json[1]
    ELSE <<>>

\* The value the search button assigns to st.session_state.search_results.
search_results_after(outcome) ==
    IF outcome.exc THEN <<>>
    ELSE IF outcome.status = 200
         THEN IF json_raises(outcome) THEN <<>>
              ELSE IF outcome.json[1] # <<>> THEN outcome.json[1] ELSE <<>>
    ELSE <<>>

search_messages(outcome) ==
    IF outcome.exc
    THEN <<Message("error", "An error occurred during search: ", 0, None, outcome.text)>>
    ELSE IF outcome.status = 200
         THEN IF json_raises(outcome)
              THEN <<Message("error", "An error occurred during search: ", 0, None, "JSONDecodeError")>>
              ELSE IF outcome.json[1] # <<>>
                   THEN <<Message("success", "Found N matching files.", Len(outcome.json[1]), None, "")>>
                   ELSE <<Message("info", "No files found matching your criteria.", 0, None, "")>>
    ELSE <<Message("error", "Search failed. Status code: ", outcome.status, None, ""),
           IF json_raises(outcome) THEN Message("text", "", 0, None, outcome.text)
           ELSE Message("json", "", 0, outcome.json, "")>>

-----------------------------------------------------------------------------
(* show_search_page: the results and the download section.                 *)

\* The key order of the objects of the search endpoint's JSON array.
record_keys == <<"file_id", "file_name">>

\* pd.DataFrame(list of dicts)
DataFrame(records) ==
    [columns |-> IF records = <<>> THEN <<>> ELSE record_keys, rows |-> records]

RECURSIVE unique(_)
\* Series.unique().tolist(): the distinct values in order of first appearance.
unique(s) ==
    IF s = <<>> THEN <<>>
    ELSE LET init == unique(SubSeq(s, 1, Len(s) - 1))
             last == s[Len(s)]
         IN  IF last \in Range(init) THEN init ELSE Append(init, last)

RECURSIVE cells(_, _)
\* rows[col].tolist()
cells(rows, col) ==
    IF rows = <<>> THEN <<>> ELSE <<rows[1][col]>> \o cells(Tail(rows), col)

\* "search_results" in st.session_state and st.session_state.search_results
has_results(sr) == sr # None /\ sr[1] # <<>>

\* What st.selectbox(options=..., index=None) returns: the user's choice in the run
\* the choice triggers; otherwise the value kept from the previous run when the
\* same widget (same label and options) was rendered there, and None for a new one.
selectbox(prev_options, prev_value, options, event) ==
    IF event # None THEN event[1]
    ELSE IF prev_options = <<options>> THEN prev_value
    ELSE None

\* if selected_filename:
filename_chosen(selected) == Truthy(selected)

\* matching_files without the comparison: every row of the table.
matching_files_unfiltered(df, name) == df.rows

\* results_df[results_df["file_name"] == selected_filename]
matching_files(df, name) ==
    LET same(r) == r.file_name = name IN SelectSeq(df.rows, same)

\* is_duplicated with the comparison off by one.
is_duplicated_off_by_one(matching) == Len(matching) > 2

\* if len(matching_files) > 1:
is_duplicated(matching) == Len(matching) > 1

\* if selected_file_id:
file_id_chosen(selected) == Truthy(selected)

\* matching_files.iloc[0]["file_id"]
first_file_id(matching) == matching[1].file_id

\* f"{api_base_url}/download/{selected_file_id}"
download_url(base, file_id) == <<base, "/download/", file_id>>

\* The part of the page below the search button, for the stored results sr, the
\* user's choice in the first selectbox (name_event) or in the second (id_event).
ShowResults(base, sr, name_event, id_event) ==
    IF has_results(sr)
    THEN LET results_df == format_search_results(DataFrame(sr[1]))
             filenames == unique(cells(results_df.rows, "file_name"))
             name == selectbox(filename_options, selected_filename, filenames, name_event)
         IN  /\ filename_options' = <<filenames>>
             /\ selected_filename' = name
             /\ IF filename_chosen(name)
                THEN LET matching == matching_files(results_df, name[1])
                     IN  IF is_duplicated(matching)
                         THEN LET file_ids == cells(matching, "file_id")
                                  id == selectbox(file_id_options, selected_file_id,
                                                  file_ids, id_event)
                              IN  /\ file_id_options' = <<file_ids>>
                                  /\ selected_file_id' = id
                                  /\ download_link' =
                                        IF file_id_chosen(id)
                                        THEN <<download_url(base, id[1])>>
                                        ELSE None
                         ELSE /\ file_id_options' = None
                              /\ selected_file_id' = None
                              /\ download_link' =
                                    <<download_url(base, first_file_id(matching))>>
                ELSE /\ file_id_options' = None
                     /\ selected_file_id' = None
                     /\ download_link' = None
    ELSE /\ filename_options' = None
         /\ selected_filename' = None
         /\ file_id_options' = None
         /\ selected_file_id' = None
         /\ download_link' = None

-----------------------------------------------------------------------------
(* show_upload_page: the two forms.                                        *)

\* missing_required testing the project id alone.
missing_required_project_only(form) == ~Truthy(Str(form.research_project_id))

\* if not research_project_id or not author:
missing_required(form) ==
    ~Truthy(Str(form.research_project_id)) \/ ~Truthy(Str(form.author))

\* metadata_dict, in insertion order.
metadata_dict(form) ==
    << <<"research_project_id", Str(form.research_project_id)>>,
       <<"author", Str(form.author)>>,
       <<"experiment_type", Str(form.experiment_type)>>,
       <<"date_conducted",
         IF form.date_conducted # None THEN isoformat(form.date_conducted[1]) ELSE None>>,
       <<"custom_tags", Str(form.custom_tags)>> >>

\* The keys of metadata_dict in the order sorted() gives.
sorted_keys ==
    <<"author", "custom_tags", "date_conducted", "experiment_type", "research_project_id">>

\* How yaml represents a scalar: None as null; a str plain, or single-quoted when
\* the plain text would not load back as the same str (empty, blank, a date).
yaml_represent(v) ==
    IF v = None THEN [tag |-> "null", style |-> "plain", text |-> <<"null">>]
    ELSE [tag |-> "str",
          style |-> IF v \in IsoDateStrings \/ v = <<"">> \/ v = <<" ">>
                    THEN "single-quoted" ELSE "plain",
          text |-> v]

\* yaml.dump(d, sort_keys=...): one "key: scalar" line per item.
yaml_dump(d, sort_keys) ==
    LET value(k) == d[CHOOSE i \in DOMAIN d : d[i][1] = k][2]
        order == IF sort_keys THEN SeqFilter(sorted_keys, {d[i][1] : i \in DOMAIN d})
                 ELSE [i \in DOMAIN d |-> d[i][1]]
    IN  [i \in DOMAIN order |-> <<order[i], yaml_represent(value(order[i]))>>]

\* yaml_string = yaml.dump(metadata_dict, sort_keys=False)
yaml_string(form) == yaml_dump(metadata_dict(form), FALSE)

FilePart(field, filename, content_type) ==
    [field |-> field, filename |-> filename, content_type |-> content_type, text |-> <<>>]

MetadataPart(yaml_text) ==
    [field |-> "metadata_file", filename |-> "metadata.yaml", content_type |-> "text/yaml",
     text |-> yaml_text]

\* The files dict of the single file form.
single_files(file, form) ==
    <<FilePart("data_file", file.name, file.type), MetadataPart(yaml_string(form))>>

\* The files dict of the folder form.
folder_files(file, form) ==
    <<FilePart("zip_file", file.name, "application/zip"), MetadataPart(yaml_string(form))>>

\* The requests a submission of the single file form sends.
single_requests(base, file, form, outcome) ==
    IF missing_required(form) THEN <<>>
    ELSE <<Request("POST", <<base, "/uploadfile/">>, <<>>, single_files(file, form), 7200)>>

\* The requests a submission of the folder form sends.
folder_requests(base, file, form, outcome) ==
    IF missing_required(form) THEN <<>>
    ELSE <<Request("POST", <<base, "/upload_folder/">>, <<>>, folder_files(file, form), 7200)>>

\* response_messages with the body of a failed upload left out.
response_messages_generic(outcome, success_text) ==
    IF outcome.exc
    THEN <<Message("error", "An error occurred during upload: ", 0, None, outcome.text)>>
    ELSE IF outcome.status = 200
         THEN <<Message("success", success_text, 0, None, "")>>
    ELSE <<Message("error", "Upload failed. Status code: ", outcome.status, None, "")>>

\* What either form writes once the request has returned or raised.
response_messages(outcome, success_text) ==
    IF outcome.exc
    THEN <<Message("error", "An error occurred during upload: ", 0, None, outcome.text)>>
    ELSE IF outcome.status = 200
         THEN IF json_raises(outcome)
              THEN <<Message("success", success_text, 0, None, ""),
                     Message("error", "An error occurred during upload: ", 0, None,
                             "JSONDecodeError")>>
              ELSE <<Message("success", success_text, 0, None, ""),
                     Message("json", "", 0, outcome.json, "")>>
    ELSE <<Message("error", "Upload failed. Status code: ", outcome.status, None, ""),
           IF json_raises(outcome) THEN Message("text", "", 0, None, outcome.text)
           ELSE Message("json", "", 0, outcome.json, "")>>

\* What a submission of a form writes.
upload_messages(form, outcome, success_text) ==
    IF missing_required(form)
    THEN <<Message("error", "Please fill in all required fields (*).", 0, None, "")>>
    ELSE response_messages(outcome, success_text)

-----------------------------------------------------------------------------
(* The interactions.  E bounds what the user enters and what the remote    *)
(* API answers: probes, urls, filter_values, search_outcomes, forms,       *)
(* upload_outcomes.                                                        *)

Pages == {"Search/Download", "Upload"}

NoForm ==
    [research_project_id |-> "", author |-> "", experiment_type |-> "",
     date_conducted |-> None, custom_tags |-> ""]

NoOutcome == Response(0, "", None)

\* kind: "search", "submit_single", "submit_folder", or "rerun" for an interaction
\* that presses neither button.
Act(kind, form, outcome) == [kind |-> kind, form |-> form, outcome |-> outcome]

DataFiles == {[name |-> "trace.mat", type |-> "application/octet-stream"]}

ZipFiles == {[name |-> "runs.zip", type |-> "application/zip"]}

\* A script run that does not render the search page: its widgets' state is dropped.
SearchPageNotRendered ==
    /\ filename_options' = None
    /\ selected_filename' = None
    /\ file_id_options' = None
    /\ selected_file_id' = None
    /\ download_link' = None
    /\ search_filter' = BlankFilter

\* The radio of the sidebar.
Navigate(E) ==
    \E p \in Pages \ {page}, probe \in E.probes :
        /\ page' = p
        /\ sidebar' = status_message(probe)
        /\ requests' = <<status_request(api_base_url)>>
        /\ shown' = <<>>
        /\ action' = Act("rerun", NoForm, NoOutcome)
        /\ data_file' = None
        /\ zip_file' = None
        /\ search_filter' = BlankFilter
        /\ IF p = "Upload"
           THEN SearchPageNotRendered
           ELSE ShowResults(api_base_url, search_results, None, None)
        /\ UNCHANGED <<df_in, df_out, api_base_url, search_results, last_search>>

\* The Backend API URL input of the sidebar.
SetApiBaseUrl(E) ==
    \E base \in E.urls \ {api_base_url}, probe \in E.probes :
        /\ api_base_url' = base
        /\ sidebar' = status_message(probe)
        /\ requests' = <<status_request(base)>>
        /\ shown' = <<>>
        /\ action' = Act("rerun", NoForm, NoOutcome)
        /\ IF page = "Upload"
           THEN SearchPageNotRendered
           ELSE /\ ShowResults(base, search_results, None, None)
                /\ UNCHANGED search_filter
        /\ UNCHANGED <<df_in, df_out, page, search_results, last_search, data_file, zip_file>>

\* One of the seven filter inputs of the search page.
EditFilter(E) ==
    /\ page = "Search/Download"
    /\ \E field \in DOMAIN E.filter_values, probe \in E.probes :
         \E value \in E.filter_values[field] \ {search_filter[field]} :
            /\ search_filter' = [search_filter EXCEPT ![field] = value]
            /\ sidebar' = status_message(probe)
            /\ requests' = <<status_request(api_base_url)>>
            /\ shown' = <<>>
            /\ action' = Act("rerun", NoForm, NoOutcome)
            /\ ShowResults(api_base_url, search_results, None, None)
            /\ UNCHANGED <<df_in, df_out, page, api_base_url, search_results, last_search, data_file, zip_file>>

\* The search button.
Search(E) ==
    /\ page = "Search/Download"
    /\ \E outcome \in E.search_outcomes, probe \in E.probes :
         LET results == search_results_after(outcome)
         IN  /\ sidebar' = status_message(probe)
             /\ requests' = <<status_request(api_base_url)>>
                               \o search_requests(api_base_url, search_filter, outcome)
             /\ search_results' = <<results>>
             /\ shown' = search_messages(outcome)
             /\ action' = Act("search", NoForm, outcome)
             /\ last_search' = <<outcome>>
             /\ ShowResults(api_base_url, <<results>>, None, None)
             /\ UNCHANGED <<df_in, df_out, page, api_base_url, search_filter, data_file, zip_file>>

\* A choice in the first selectbox: one of its options, or the selection cleared.
SelectFilename(E) ==
    /\ page = "Search/Download"
    /\ filename_options # None
    /\ \E choice \in ({None} \cup {<<n>> : n \in Range(filename_options[1])})
                        \ {selected_filename},
          probe \in E.probes :
            /\ sidebar' = status_message(probe)
            /\ requests' = <<status_request(api_base_url)>>
            /\ shown' = <<>>
            /\ action' = Act("rerun", NoForm, NoOutcome)
            /\ ShowResults(api_base_url, search_results, <<choice>>, None)
            /\ UNCHANGED <<df_in, df_out, page, api_base_url, search_results, last_search, search_filter,
                           data_file, zip_file>>

\* A choice in the second selectbox: one of its options, or the selection cleared.
SelectFileId(E) ==
    /\ page = "Search/Download"
    /\ file_id_options # None
    /\ \E choice \in ({None} \cup {<<i>> : i \in Range(file_id_options[1])})
                        \ {selected_file_id},
          probe \in E.probes :
            /\ sidebar' = status_message(probe)
            /\ requests' = <<status_request(api_base_url)>>
            /\ shown' = <<>>
            /\ action' = Act("rerun", NoForm, NoOutcome)
            /\ ShowResults(api_base_url, search_results, None, <<choice>>)
            /\ UNCHANGED <<df_in, df_out, page, api_base_url, search_results, last_search, search_filter,
                           data_file, zip_file>>

\* The file uploader of the single file tab.
ChooseDataFile(E) ==
    /\ page = "Upload"
    /\ \E file \in ({None} \cup {<<f>> : f \in DataFiles}) \ {data_file},
          probe \in E.probes :
            /\ data_file' = file
            /\ sidebar' = status_message(probe)
            /\ requests' = <<status_request(api_base_url)>>
            /\ shown' = <<>>
            /\ action' = Act("rerun", NoForm, NoOutcome)
            /\ SearchPageNotRendered
            /\ UNCHANGED <<df_in, df_out, page, api_base_url, search_results, last_search, zip_file>>

\* The file uploader of the folder tab.
ChooseZipFile(E) ==
    /\ page = "Upload"
    /\ \E file \in ({None} \cup {<<f>> : f \in ZipFiles}) \ {zip_file},
          probe \in E.probes :
            /\ zip_file' = file
            /\ sidebar' = status_message(probe)
            /\ requests' = <<status_request(api_base_url)>>
            /\ shown' = <<>>
            /\ action' = Act("rerun", NoForm, NoOutcome)
            /\ SearchPageNotRendered
            /\ UNCHANGED <<df_in, df_out, page, api_base_url, search_results, last_search, data_file>>

\* The submit button of the single file form.  A blocked submission returns from
\* show_upload_page before the folder tab is rendered.
SubmitSingle(E) ==
    /\ page = "Upload"
    /\ data_file # None
    /\ \E form \in E.forms, probe \in E.probes :
         \E outcome \in IF missing_required(form) THEN {NoOutcome} ELSE E.upload_outcomes :
            /\ sidebar' = status_message(probe)
            /\ requests' = <<status_request(api_base_url)>>
                              \o single_requests(api_base_url, data_file[1], form, outcome)
            /\ shown' = upload_messages(form, outcome, "File processed successfully!")
            /\ action' = Act("submit_single", form, outcome)
            /\ zip_file' = IF missing_required(form) THEN None ELSE zip_file
            /\ SearchPageNotRendered
            /\ UNCHANGED <<df_in, df_out, page, api_base_url, search_results, last_search, data_file>>

\* The submit button of the folder form.
SubmitFolder(E) ==
    /\ page = "Upload"
    /\ zip_file # None
    /\ \E form \in E.forms, probe \in E.probes :
         \E outcome \in IF missing_required(form) THEN {NoOutcome} ELSE E.upload_outcomes :
            /\ sidebar' = status_message(probe)
            /\ requests' = <<status_request(api_base_url)>>
                              \o folder_requests(api_base_url, zip_file[1], form, outcome)
            /\ shown' = upload_messages(form, outcome, "Folder processed successfully!")
            /\ action' = Act("submit_folder", form, outcome)
            /\ SearchPageNotRendered
            /\ UNCHANGED <<df_in, df_out, page, api_base_url, search_results, last_search, data_file, zip_file>>

\* The state after the first script run of a session.
AppInit(E) ==
    /\ page = "Search/Download"
    /\ api_base_url = "http://localhost:8001"
    /\ sidebar \in {status_message(probe) : probe \in E.probes}
    /\ search_results = None
    /\ filename_options = None
    /\ selected_filename = None
    /\ file_id_options = None
    /\ selected_file_id = None
    /\ download_link = None
    /\ data_file = None
    /\ zip_file = None
    /\ requests = <<status_request("http://localhost:8001")>>
    /\ shown = <<>>
    /\ search_filter = BlankFilter
    /\ action = Act("rerun", NoForm, NoOutcome)
    /\ last_search = None

InitOf(E) == AppInit(E) /\ df_in = None /\ df_out = None

-----------------------------------------------------------------------------
(* What the user enters and what the remote API answers, bounded.          *)

\* The records of the remote catalogue: file_id is the key, file_name is not.
Catalogue ==
    {[file_id |-> "a1", file_name |-> "run1.csv"],
     [file_id |-> "a2", file_name |-> "run1.csv"],
     [file_id |-> "", file_name |-> "run1.csv"],
     [file_id |-> "a3", file_name |-> "run2.csv"],
     [file_id |-> "a4", file_name |-> ""]}

\* The ResultSets of at most n records: any records of the catalogue in any order.
ResultSets(records, n) ==
    {rs \in UNION {[1..k -> records] : k \in 0..n} :
        \A i, j \in DOMAIN rs : rs[i] = rs[j] => i = j}

ErrorBody == [detail |-> "disk full"]

Failures ==
    {RequestException,
     Response(200, "<html>gateway</html>", None),
     Response(500, "{\"detail\": \"disk full\"}", <<ErrorBody>>),
     Response(502, "Bad Gateway", None)}

Stored == Response(200, "{\"detail\": \"stored\"}", <<[detail |-> "stored"]>>)

SearchOutcomes(result_sets) ==
    {Response(200, "[...]", <<rs>>) : rs \in result_sets} \cup Failures

Probes == {Response(200, "{}", None), Response(503, "", None), RequestException}

Urls == {"http://localhost:8001", "http://datalake:8001"}

OptionalDates == {None} \cup {<<d>> : d \in Dates}

Forms ==
    [research_project_id : {"", " ", "BBBO"}, author : {"", "wkm2109"},
     experiment_type : {"", "Frequency_Sweep"}, date_conducted : {<<d>> : d \in Dates},
     custom_tags : {"", "tag1, important_data"}]

Duplicates ==
    <<[file_id |-> "a1", file_name |-> "run1.csv"], [file_id |-> "a2", file_name |-> "run1.csv"]>>

\* The search and download flow in full, the rest narrow.
MainEnv ==
    [probes |-> {Response(200, "{}", None)},
     urls |-> Urls,
     filter_values |-> [research_project_id |-> {"", "BBBO"}],
     search_outcomes |-> SearchOutcomes(ResultSets(Catalogue, MaxRows)),
     forms |-> {f \in Forms : /\ f.research_project_id # " " /\ f.author = "wkm2109"
                              /\ f.experiment_type = "" /\ f.custom_tags = ""
                              /\ f.date_conducted[1].year = 2024},
     upload_outcomes |->
        {Stored, Response(500, "{\"detail\": \"disk full\"}", <<ErrorBody>>), RequestException}]

\* The search filters in full, the rest narrow.
FilterEnv ==
    [probes |-> {Response(200, "{}", None)},
     urls |-> Urls,
     filter_values |->
        [research_project_id |-> {"", " ", "BBBO"}, author |-> {"", "wkm2109"},
         file_type |-> {"", "PDF"}, experiment_type |-> {"", "Data Calibration"},
         tags_contain |-> {"", " ", "5hz"},
         date_after |-> {None, <<[year |-> 2024, month |-> 1, day |-> 5]>>},
         date_before |-> {None, <<[year |-> 2025, month |-> 12, day |-> 31]>>}],
     search_outcomes |-> {Response(200, "[...]", <<Duplicates>>), RequestException},
     forms |-> {f \in Forms : /\ f.research_project_id # " " /\ f.author = "wkm2109"
                              /\ f.experiment_type = "" /\ f.custom_tags = ""
                              /\ f.date_conducted[1].year = 2024},
     upload_outcomes |-> {Stored, RequestException}]

\* The upload forms and the answers to an upload in full, the rest narrow.
UploadEnv ==
    [probes |-> {Response(200, "{}", None), RequestException},
     urls |-> Urls,
     filter_values |-> [research_project_id |-> {"", "BBBO"}],
     search_outcomes |-> {Response(200, "[...]", <<Duplicates>>)},
     forms |-> Forms,
     upload_outcomes |-> {Stored} \cup Failures]

Init == InitOf(MainEnv)

Next ==
    \/ Navigate(MainEnv)
    \/ SetApiBaseUrl(MainEnv)
    \/ EditFilter(MainEnv)
    \/ Search(MainEnv)
    \/ SelectFilename(MainEnv)
    \/ SelectFileId(MainEnv)
    \/ ChooseDataFile(MainEnv)
    \/ ChooseZipFile(MainEnv)
    \/ SubmitSingle(MainEnv)
    \/ SubmitFolder(MainEnv)

Spec == Init /\ [][Next]_vars


InitFilter == InitOf(FilterEnv)

NextFilter ==
    \/ Navigate(FilterEnv)
    \/ SetApiBaseUrl(FilterEnv)
    \/ EditFilter(FilterEnv)
    \/ Search(FilterEnv)
    \/ SelectFilename(FilterEnv)
    \/ SelectFileId(FilterEnv)
    \/ ChooseDataFile(FilterEnv)
    \/ ChooseZipFile(FilterEnv)
    \/ SubmitSingle(FilterEnv)
    \/ SubmitFolder(FilterEnv)

SpecFilter == InitFilter /\ [][NextFilter]_vars

InitUpload == InitOf(UploadEnv)

NextUpload ==
    \/ Navigate(UploadEnv)
    \/ SetApiBaseUrl(UploadEnv)
    \/ EditFilter(UploadEnv)
    \/ Search(UploadEnv)
    \/ SelectFilename(UploadEnv)
    \/ SelectFileId(UploadEnv)
    \/ ChooseDataFile(UploadEnv)
    \/ ChooseZipFile(UploadEnv)
    \/ SubmitSingle(UploadEnv)
    \/ SubmitFolder(UploadEnv)

SpecUpload == InitUpload /\ [][NextUpload]_vars


-----------------------------------------------------------------------------
(* format_search_results alone, on the tables pd.DataFrame builds from a   *)
(* JSON array of objects: no rows and no columns for an empty array, and   *)
(* otherwise the columns the objects name, in any order.                   *)

Labels == Range(desired_order) \cup {"uploader"}

ColumnLists(n) ==
    {cols \in UNION {[1..k -> Labels] : k \in 0..n} :
        \A i, j \in DOMAIN cols : cols[i] = cols[j] => i = j}

Stamp1 == [year |-> 2024, month |-> 1, day |-> 5, hour |-> 9, minute |-> 30, second |-> 0]

Stamp2 == [year |-> 2025, month |-> 12, day |-> 31, hour |-> 23, minute |-> 59, second |-> 59]

\* The cell of a column in the first or the second kind of row; a missing value is None.
Cell(col, kind) ==
    IF col = "date_conducted" THEN (IF kind = 1 THEN <<Stamp1>> ELSE None)
    ELSE IF col = "upload_timestamp" THEN (IF kind = 1 THEN <<Stamp1>> ELSE <<Stamp2>>)
    ELSE IF col = "size_bytes" THEN (IF kind = 1 THEN <<2048>> ELSE None)
    ELSE IF kind = 1 THEN "first" ELSE "second"

Tables(max_cols, max_rows) ==
    {EmptyDataFrame} \cup
    {[columns |-> cols, rows |-> [i \in DOMAIN kinds |-> [c \in Range(cols) |-> Cell(c, kinds[i])]]] :
        cols \in ColumnLists(max_cols),
        kinds \in UNION {[1..k -> {1, 2}] : k \in 1..max_rows}}

InitFormat ==
    /\ AppInit(MainEnv)
    /\ df_in \in {<<t>> : t \in Tables(MaxCols, MaxTableRows)}
    /\ df_out = None

FormatTable ==
    /\ df_out = None
    /\ df_out' = <<format_search_results(df_in[1])>>
    /\ UNCHANGED <<app_vars, df_in>>

NextFormat == FormatTable

SpecFormat == InitFormat /\ [][NextFormat]_vars


-----------------------------------------------------------------------------
(* Properties of the search and download flow (Spec).                      *)

\* The records of the stored ResultSet whose file_name is the selected one, in order.
SelectedRecords ==
    IF search_results = None \/ selected_filename = None THEN <<>>
    ELSE LET same(r) == r.file_name = selected_filename[1]
         IN  SelectSeq(search_results[1], same)

SelectedIds == [i \in DOMAIN SelectedRecords |-> SelectedRecords[i].file_id]

LinkTo(file_id) == <<<<api_base_url, "/download/", file_id>>>>

\* C1: when two or more records of the stored ResultSet carry the selected
\* file_name, no download link is shown unless a second selection has been made;
\* the options of that selection are exactly the file_ids of those records, and
\* the link shown is <api_base_url>/download/<the chosen file_id>.
DuplicatesNeedSecondSelection ==
    Len(SelectedRecords) >= 2 =>
        /\ file_id_options # None => file_id_options = <<SelectedIds>>
        /\ selected_file_id = None => download_link = None
        /\ download_link # None =>
            /\ file_id_options # None
            /\ selected_file_id[1] \in Range(SelectedIds)
            /\ download_link = LinkTo(selected_file_id[1])

DuplicateChosenById ==
    /\ Len(SelectedRecords) >= 2
    /\ selected_file_id = <<"a2">>
    /\ download_link = <<<<"http://datalake:8001", "/download/", "a2">>>>

\* C2: every download link shown is <api_base_url>/download/<file_id> for the
\* file_id of a record of the stored ResultSet whose file_name is the selected
\* one; when exactly one record has that name, the link is that record's and no
\* second selection is offered or used.
LinkKeyedByCurrentFileId ==
    download_link # None =>
        /\ page = "Search/Download"
        /\ has_results(search_results)
        /\ selected_filename # None
        /\ \E i \in DOMAIN SelectedRecords : download_link = LinkTo(SelectedRecords[i].file_id)
        /\ Len(SelectedRecords) = 1 =>
            /\ file_id_options = None
            /\ selected_file_id = None
            /\ download_link = LinkTo(SelectedRecords[1].file_id)

\* A search has just replaced the ResultSet, the selected name is still offered and
\* now names one record: the link is that record's.
LinkFollowsNewResultSet ==
    /\ action.kind = "search"
    /\ selected_filename = <<"run1.csv">>
    /\ Len(SelectedRecords) = 1
    /\ selected_file_id = None
    /\ download_link = LinkTo("a2")

\* What a search press stores for an outcome.
StoredFor(outcome) ==
    IF ~outcome.exc /\ outcome.status = 200 /\ outcome.json # None /\ outcome.json[1] # <<>>
    THEN outcome.json[1]
    ELSE <<>>

\* C3: the stored ResultSet is the outcome of the most recent search press: the
\* rows of a 200 answer with a non-empty body, the empty list for an empty result,
\* another status or a transport exception; before the first press nothing is stored.
ResultSetIsLastSearch ==
    IF last_search = None THEN search_results = None
    ELSE search_results = <<StoredFor(last_search[1])>>

\* A failed search has emptied the ResultSet and an upload has been submitted since.
EmptiedBySearchThenUpload ==
    /\ last_search # None
    /\ last_search[1].exc
    /\ search_results = <<<<>>>>
    /\ action.kind = "submit_single"

RequestsTo(path) == {i \in DOMAIN requests : requests[i].url[2] = path}

BothFilled(form) == form.research_project_id # "" /\ form.author # ""

\* C7: a script run sends one request to /search when the search button was
\* pressed and none otherwise, one request to /uploadfile/ or /upload_folder/ when
\* that form was submitted with both required fields and none otherwise, whatever
\* the outcome of the request.
OneRequestPerAction ==
    /\ Cardinality(RequestsTo("/search")) = IF action.kind = "search" THEN 1 ELSE 0
    /\ Cardinality(RequestsTo("/uploadfile/")) =
          IF action.kind = "submit_single" /\ BothFilled(action.form) THEN 1 ELSE 0
    /\ Cardinality(RequestsTo("/upload_folder/")) =
          IF action.kind = "submit_folder" /\ BothFilled(action.form) THEN 1 ELSE 0

SearchRaisedOnce ==
    /\ action.kind = "search"
    /\ action.outcome.exc
    /\ Cardinality(RequestsTo("/search")) = 1
    /\ shown # <<>>

\* C10: the first selectbox offers every file_name of the ResultSet once, and once
\* the user has chosen a record's file_name, and its file_id when several records
\* carry the name, the link to that record is shown, whatever the values are.
EveryRecordDownloadable ==
    (page = "Search/Download" /\ has_results(search_results)) =>
        /\ filename_options # None
        /\ Range(filename_options[1]) = {r.file_name : r \in Range(search_results[1])}
        /\ \A i, j \in DOMAIN filename_options[1] :
              filename_options[1][i] = filename_options[1][j] => i = j
        /\ Len(SelectedRecords) = 1 => download_link = LinkTo(SelectedRecords[1].file_id)
        /\ (Len(SelectedRecords) >= 2 /\ selected_file_id # None) =>
              download_link = LinkTo(selected_file_id[1])

-----------------------------------------------------------------------------
(* Properties of the search filters (SpecFilter).                          *)

TextFilters == {"research_project_id", "author", "file_type", "experiment_type", "tags_contain"}

DateFilters == {"date_after", "date_before"}

\* A filter widget left empty.
LeftEmpty(k) == IF k \in DateFilters THEN search_filter[k] = None ELSE search_filter[k] = ""

\* C4: the params of the request to /search hold one key for each filter that is
\* not left empty and no other key; a text filter's value is the text entered, a
\* date filter's value is its ISO date string; with all seven left empty the
\* params are empty.
ParamsAreTheFiltersEntered ==
    action.kind = "search" =>
        LET params == requests[2].params
        IN  /\ requests[2].method = "GET"
            /\ requests[2].url = <<api_base_url, "/search">>
            /\ {params[i][1] : i \in DOMAIN params} =
                  {k \in TextFilters \cup DateFilters : ~LeftEmpty(k)}
            /\ \A i, j \in DOMAIN params : params[i][1] = params[j][1] => i = j
            /\ \A i \in DOMAIN params :
                  IF params[i][1] \in DateFilters
                  THEN /\ params[i][2] \in IsoDateStrings
                       /\ params[i][2] = isoformat(search_filter[params[i][1]][1])
                  ELSE params[i][2] = <<search_filter[params[i][1]]>>
            /\ (\A k \in TextFilters \cup DateFilters : LeftEmpty(k)) => params = <<>>

SearchWithSomeFilters ==
    /\ action.kind = "search"
    /\ search_filter.research_project_id = " "
    /\ search_filter.author = ""
    /\ search_filter.tags_contain = "5hz"
    /\ search_filter.date_after = None
    /\ requests[2].params =
          << <<"research_project_id", <<" ">>>>, <<"tags_contain", <<"5hz">>>>,
             <<"date_before", <<"2025", "-", "12", "-", "31">>>> >>

-----------------------------------------------------------------------------
(* Properties of the upload forms (SpecUpload).                            *)

Posts == {i \in DOMAIN requests : requests[i].method = "POST"}

Submitted == action.kind \in {"submit_single", "submit_folder"}

\* C5: a submission of either form with an empty research_project_id or author
\* writes the error and sends no POST; a POST is sent only by a submission with
\* both fields filled in, to the form's endpoint.
EmptyRequiredFieldBlocksUpload ==
    /\ Posts # {} => Submitted /\ BothFilled(action.form)
    /\ (Submitted /\ ~BothFilled(action.form)) =>
          /\ Posts = {}
          /\ shown = <<Message("error", "Please fill in all required fields (*).", 0, None, "")>>
    /\ (Submitted /\ BothFilled(action.form)) =>
          \E i \in Posts :
              requests[i].url[2] =
                  IF action.kind = "submit_single" THEN "/uploadfile/" ELSE "/upload_folder/"

BlockedForAuthor ==
    /\ action.kind = "submit_folder"
    /\ action.form.research_project_id = "BBBO"
    /\ action.form.author = ""
    /\ Posts = {}
    /\ shown # <<>>

\* C6: for an upload that got a response, status 200 writes the success message;
\* any other status writes the failure message with the status code, followed by
\* the decoded JSON body when the body is JSON and by the raw text when it is not.
UploadOutcomeByStatus ==
    (Submitted /\ Posts # {} /\ ~action.outcome.exc) =>
        LET response == action.outcome
        IN  /\ response.status = 200 =>
                shown[1] = Message("success",
                                   IF action.kind = "submit_single"
                                   THEN "File processed successfully!"
                                   ELSE "Folder processed successfully!", 0, None, "")
            /\ response.status # 200 =>
                /\ Len(shown) = 2
                /\ shown[1] = Message("error", "Upload failed. Status code: ", response.status,
                                      None, "")
                /\ IF response.json # None
                   THEN shown[2] = Message("json", "", 0, response.json, "")
                   ELSE shown[2] = Message("text", "", 0, None, response.text)

DiskFullShown ==
    /\ action.kind = "submit_single"
    /\ action.outcome.status = 500
    /\ shown[2] = Message("json", "", 0, <<[detail |-> "disk full"]>>, "")

\* The keys of a metadata document whose value is neither null nor the empty string.
Populated(doc) ==
    {doc[k][1] : k \in {k \in DOMAIN doc : doc[k][2].tag # "null" /\ doc[k][2].text # <<"">>}}

\* C9: the metadata document of every upload request has the keys
\* research_project_id, author, experiment_type, date_conducted, custom_tags in
\* that order, date_conducted an ISO date string or null and the other values the
\* texts entered; when the project id and the author are filled in and nothing
\* else is entered, exactly those two keys are populated and experiment_type is
\* the empty string.
MetadataDocumentFormat ==
    \A i \in Posts :
        LET doc == requests[i].files[2].text
            form == action.form
            str(text) == [tag |-> "str",
                          style |-> IF text \in {"", " "} THEN "single-quoted" ELSE "plain",
                          text |-> <<text>>]
        IN  /\ requests[i].files[2].field = "metadata_file"
            /\ Len(doc) = 5
            /\ <<doc[1][1], doc[2][1], doc[3][1], doc[4][1], doc[5][1]>> =
                  <<"research_project_id", "author", "experiment_type", "date_conducted",
                    "custom_tags">>
            /\ doc[1][2] = str(form.research_project_id)
            /\ doc[2][2] = str(form.author)
            /\ doc[3][2] = str(form.experiment_type)
            /\ \/ doc[4][2].tag = "null"
               \/ doc[4][2].tag = "str" /\ doc[4][2].text \in IsoDateStrings
            /\ doc[5][2] = str(form.custom_tags)
            /\ (form.experiment_type = "" /\ form.custom_tags = "") =>
                  /\ Populated(doc) = {"research_project_id", "author"}
                  /\ doc[3][2].text = <<"">>

-----------------------------------------------------------------------------
(* Properties of format_search_results (SpecFormat).                       *)

\* The fixed column order of the formatted table.
FixedOrder ==
    <<"file_name", "research_project_id", "author", "file_type", "experiment_type",
      "date_conducted", "size_in_bytes", "custom_tags", "upload_timestamp", "file_id",
      "minio_object_path">>

Position(label) == CHOOSE i \in DOMAIN FixedOrder : FixedOrder[i] = label

InputLabel(label) == IF label = "size_in_bytes" THEN "size_bytes" ELSE label

\* The columns of out are those of the fixed order the input has, in the fixed order.
ColumnsInFixedOrder(in, out) ==
    /\ Range(out.columns) \subseteq Range(FixedOrder)
    /\ {InputLabel(c) : c \in Range(out.columns)} = Range(in.columns) \cap Range(desired_order)
    /\ \A i, j \in DOMAIN out.columns :
          i < j => Position(out.columns[i]) < Position(out.columns[j])

\* Row i of out is row i of in: the cells that are not reformatted are unchanged,
\* and a size is the input's size, 0 when that is missing.
RowsInOrder(in, out) ==
    /\ Len(out.rows) = Len(in.rows)
    /\ \A i \in DOMAIN out.rows :
          /\ DOMAIN out.rows[i] = Range(out.columns)
          /\ \A c \in Range(out.columns) :
                IF c = "size_in_bytes"
                THEN out.rows[i][c] =
                        IF in.rows[i]["size_bytes"] = None THEN 0 ELSE in.rows[i]["size_bytes"][1]
                ELSE IF c \in {"date_conducted", "upload_timestamp"}
                     THEN /\ (out.rows[i][c] = None) = (in.rows[i][c] = None)
                          /\ out.rows[i][c] # None =>
                                /\ out.rows[i][c][1].year = in.rows[i][c][1].year
                                /\ out.rows[i][c][1].month = in.rows[i][c][1].month
                                /\ out.rows[i][c][1].day = in.rows[i][c][1].day
                ELSE out.rows[i][c] = in.rows[i][c]

\* C8: every table of N rows is returned with N rows in the same order and with
\* the columns of the fixed order that the input has, in the fixed order,
\* size_bytes renamed size_in_bytes; the empty table is returned empty.
FormatKeepsEveryRow ==
    df_out # None =>
        /\ RowsInOrder(df_in[1], df_out[1])
        /\ ColumnsInFixedOrder(df_in[1], df_out[1])
        /\ df_in[1] = EmptyDataFrame => df_out[1] = EmptyDataFrame

====
